---- MODULE Spec2Model ----
(***************************************************************************)
(* pyanaconda/storage/installation.py: activation of the storage layout    *)
(* (turn_on_filesystems, _setup_bootable_devices) and writing of the       *)
(* storage configuration (write_storage_configuration,                     *)
(* _write_escrow_packets, _write_dasd_conf).                               *)
(*                                                                         *)
(* External calls are recorded, in order, in the log `calls`.  Strings the *)
(* code inspects character by character (startswith, strip, sort keys) are *)
(* sequences of one-character strings.                                      *)
(***************************************************************************)
EXTENDS Integers, Sequences, FiniteSets, TLC

VARIABLES
    \* ---- the storage object seen by turn_on_filesystems ----
    skip_bootloader,   \* storage.bootloader.skip_bootloader
    stage2_bootable,   \* storage.bootloader.stage2_bootable
    boot_device,       \* storage.boot_device
    stage1_device,     \* storage.bootloader.stage1_device
    parents,           \* md0.parents, the members of the array
    label,             \* disk -> partition table type (parted_disk.type / label_type)
    fmt,               \* partition -> dev.format.type
    ptype,             \* partition -> type of its parted partition
    bootable,          \* partition -> dev.bootable (the boot flag of its parted partition)
    bootable0,         \* the boot flags when turn_on_filesystems was entered
    part_name,         \* partition -> name of its parted partition
    \* ---- control state of turn_on_filesystems ----
    pc,                \* position in turn_on_filesystems / _setup_bootable_devices
    boot_devs,         \* the local boot_devs of _setup_bootable_devices
    idx,               \* position of the for loop over boot_devs
    error,             \* the exception in flight, "" when none
    reads,             \* devices _setup_bootable_devices has accessed
    calls,             \* log of external calls, oldest first
    \* ---- the system seen by write_storage_configuration ----
    devices,           \* storage.devices, in the order the device tree lists them
    is_s390,           \* arch.is_s390()
    etc_dir,           \* <sysroot>/etc exists
    dasd_conf,         \* <sysroot>/etc/dasd.conf: "absent", "empty" or "old"
    zdev_exists,       \* <sysroot>/etc/zdev.conf exists
    zdev_conf,         \* the stanzas of <sysroot>/etc/zdev.conf
    files0,            \* the three file variables when write_storage_configuration was entered
    sysfs              \* what the run saw under /sys/bus/ccw/drivers/dasd-eckd

avars == <<skip_bootloader, stage2_bootable, boot_device, stage1_device, parents,
           label, fmt, ptype, bootable, bootable0, part_name,
           pc, boot_devs, idx, error, reads, calls>>

pvars == <<devices, is_s390, etc_dir, dasd_conf, zdev_exists, zdev_conf, files0, sysfs>>

vars == <<avars, pvars>>

----------------------------------------------------------------------------
(* Bounds of the device model *)

\* longest member list of the array md0
MaxMembers == 2

\* longest storage.devices list
MaxDevices == 3

\* most entries of the dasd-eckd sysfs directory
MaxEntries == 2

----------------------------------------------------------------------------
(* The device universe *)

Disks == {"sda", "sdb"}

Partitions == {"sda1", "sda2", "sdb1"}

\* dev.disk of a partition
DiskOf(dev) == IF dev \in {"sda1", "sda2"} THEN "sda" ELSE "sdb"

\* devices that can be a boot reference or an array member: the partitions,
\* the array md0 and the whole-disk device sda (which has no boot flag)
Members == Partitions \cup {"sda"}

RefDevices == Members \cup {"md0"}

\* dev.type
DevType(dev) ==
    IF dev = "md0" THEN "mdarray"
    ELSE IF dev \in Partitions THEN "partition" ELSE "disk"

LabelTypes == {"msdos", "gpt"}

FormatTypes == {"efi", "macefi", "hfs+", "ext4"}

PARTITION_NORMAL == "PARTITION_NORMAL"

PARTITION_LOGICAL == "PARTITION_LOGICAL"

PARTITION_BOOT == "PARTITION_BOOT"

ERROR_RAISE == "ERROR_RAISE"

Verdicts == {"ERROR_RAISE", "ERROR_CONTINUE", "ERROR_RETRY"}

\* dev.format.name, the display name of a format
FormatName(t) ==
    CASE t = "efi" -> "EFI System Partition"
      [] t = "macefi" -> "Linux HFS+ ESP"
      [] t = "hfs+" -> "Apple HFS+"
      [] OTHER -> "ext4"

\* sequences over S without repetition, of length at most n
RECURSIVE SeqsUpTo(_, _)
SeqsUpTo(S, n) ==
    IF n = 0 THEN {<<>>}
    ELSE LET shorter == SeqsUpTo(S, n - 1)
         IN  shorter \cup
             {s \in {Append(t, x) : t \in {u \in shorter : Len(u) = n - 1},
                                    x \in S} :
                 \A i, j \in 1..Len(s) : i # j => s[i] # s[j]}

\* an entry of the call log: the operation, its argument and how it ended
\* ("" when it returned nothing, the exception it raised, or the verdict of
\* the error handler)
CallR(op, arg, res) == [op |-> op, arg |-> arg, res |-> res]

Call(op, arg) == CallR(op, arg, "")

\* the sysfs directory before the run has looked at it
NotRead == [read |-> FALSE, exists |-> FALSE, entries |-> <<>>]

----------------------------------------------------------------------------
(* _setup_bootable_devices: the decisions taken for one candidate *)

\* hasattr(dev, "bootable"): only partition devices carry a boot flag
hasattr_bootable(dev) == dev \in Partitions

\* dev.disk.format.parted_disk.type
parted_disk_type(dev) == label[DiskOf(dev)]

\* dev.disk.format.label_type
label_type(dev) == label[DiskOf(dev)]

\* dev.disk.format.parted_disk.partitions
partitions(dev) == {p \in Partitions : DiskOf(p) = DiskOf(dev)}

\* p.getFlag(parted.PARTITION_BOOT)
getFlag(p, flag) == flag = PARTITION_BOOT /\ bootable[p]

\* MsdosSkip with the partition type test on the wrong type
MsdosSkip_WrongType(dev) ==
    /\ parted_disk_type(dev) = "msdos"
    /\ \E p \in partitions(dev) :
          ptype[p] = PARTITION_LOGICAL /\ getFlag(p, PARTITION_BOOT)

\* lines 88-94: a dos label that already has an active normal partition
MsdosSkip(dev) ==
    /\ parted_disk_type(dev) = "msdos"
    /\ \E p \in partitions(dev) :
          ptype[p] = PARTITION_NORMAL /\ getFlag(p, PARTITION_BOOT)

\* lines 99-101: on gpt only the EFI system partition is flagged
GptSkip(dev) ==
    /\ label_type(dev) = "gpt"
    /\ fmt[dev] \notin {"efi", "macefi"}

\* Skip with the two rules joined by "and"
Skip_Both(dev) == MsdosSkip(dev) /\ GptSkip(dev)

\* lines 88-103: the value of the local skip
Skip(dev) == MsdosSkip(dev) \/ GptSkip(dev)

\* SetsBootFlag with "macefi" left out of the list
SetsBootFlag_NoMacefi(dev) ==
    \/ parted_disk_type(dev) # "gpt"
    \/ fmt[dev] \notin {"hfs+"}

\* lines 108-109: hfs+ partitions on gpt are not flagged through parted
SetsBootFlag(dev) ==
    \/ parted_disk_type(dev) # "gpt"
    \/ fmt[dev] \notin {"hfs+", "macefi"}

\* line 114: dev.parted_partition.disk.supportsFeature(DISK_TYPE_PARTITION_NAME);
\* of the two label types gpt has partition names and msdos has none
supportsFeature_PARTITION_NAME(dev) == label[DiskOf(dev)] = "gpt"

\* lines 71-74: the reference device
BootReference ==
    IF stage2_bootable THEN boot_device ELSE stage1_device

\* BootDevs without the expansion of an array
BootDevs_NoExpansion(boot) == <<boot>>

\* lines 76-79: the candidates
BootDevs(boot) ==
    IF DevType(boot) = "mdarray" THEN parents ELSE <<boot>>

\* lines 107-120: the calls made for a candidate that is not skipped
MarkCalls(dev) ==
    (IF SetsBootFlag(dev) THEN <<Call("set_bootable", dev)>> ELSE <<>>)
    \o (IF supportsFeature_PARTITION_NAME(dev)
        THEN <<Call("set_name", dev)>> ELSE <<>>)
    \o <<Call("disk.setup", dev), Call("commit_to_disk", dev)>>

----------------------------------------------------------------------------
(* turn_on_filesystems *)

\* The storage object when turn_on_filesystems is entered.  A gpt label has no
\* logical partitions; the second disk holds one primary partition, formatted
\* efi and not yet active.  Attributes the run cannot read are held at one value:
\* the reference device that stage2_bootable does not select, and the member
\* list of md0 when md0 is not the reference.
InitActivate ==
    /\ skip_bootloader \in BOOLEAN
    /\ stage2_bootable \in BOOLEAN
    /\ boot_device \in RefDevices
    /\ stage1_device \in RefDevices
    /\ stage2_bootable => stage1_device = "sda"
    /\ ~stage2_bootable => boot_device = "sda1"
    /\ parents \in {s \in SeqsUpTo(Members, MaxMembers) : Len(s) >= 1}
    /\ "md0" \notin {boot_device, stage1_device} => parents = <<"sda1">>
    /\ label \in [Disks -> LabelTypes]
    /\ fmt \in [Partitions -> FormatTypes]
    /\ ptype \in [Partitions -> {PARTITION_NORMAL, PARTITION_LOGICAL}]
    /\ \A p \in Partitions : label[DiskOf(p)] = "gpt" => ptype[p] = PARTITION_NORMAL
    /\ ptype["sdb1"] = PARTITION_NORMAL
    /\ fmt["sdb1"] = "efi"
    /\ bootable \in [Partitions -> BOOLEAN]
    /\ ~bootable["sdb1"]
    /\ bootable0 = bootable
    /\ part_name = [p \in Partitions |-> ""]
    /\ pc = "teardown_all"
    /\ boot_devs = <<>>
    /\ idx = 1
    /\ error = ""
    /\ reads = {}
    /\ calls = <<>>
    /\ devices = <<>>
    /\ is_s390 = FALSE
    /\ etc_dir = TRUE
    /\ dasd_conf = "absent"
    /\ zdev_exists = FALSE
    /\ zdev_conf = <<>>
    /\ files0 = <<"absent", FALSE, <<>>>>
    /\ sysfs = NotRead

storage == <<skip_bootloader, stage2_bootable, boot_device, stage1_device,
             parents, label, fmt, ptype, bootable0>>

\* line 48
TeardownAll ==
    /\ pc = "teardown_all"
    /\ calls' = Append(calls, Call("teardown_all", ""))
    /\ pc' = "do_it"
    /\ UNCHANGED <<pvars, storage, bootable, part_name, boot_devs, idx, error, reads>>

\* AfterDoIt with the marker outside the try block's control flow
AfterDoIt_NoTry(outcome) == "setup_bootable"

\* lines 50-54: where control goes when do_it has returned ("") or raised
AfterDoIt(outcome) == IF outcome = "" THEN "setup_bootable" ELSE "except"

\* Routed with FormatResizeError left out of the except clause
Routed_FSOnly(kind) == kind = "FSResizeError"

\* line 54: the exceptions the except clause catches
Routed(kind) == kind \in {"FSResizeError", "FormatResizeError"}

\* line 55
Escalates(verdict) == verdict = ERROR_RAISE

\* line 51: storage.do_it(callbacks) returns or raises
DoIt ==
    /\ pc = "do_it"
    /\ \E outcome \in {"", "FSResizeError", "FormatResizeError", "OtherError"} :
          /\ calls' = Append(calls, CallR("do_it", "", outcome))
          /\ error' = outcome
          /\ pc' = AfterDoIt(outcome)
    /\ UNCHANGED <<pvars, storage, bootable, part_name, boot_devs, idx, reads>>

\* lines 68-79: entry of _setup_bootable_devices
SetupBootableDevices ==
    /\ pc = "setup_bootable"
    /\ IF skip_bootloader
       THEN /\ pc' = "dump_state"
            /\ UNCHANGED <<boot_devs, reads>>
       ELSE /\ boot_devs' = BootDevs(BootReference)
            /\ reads' = reads \cup {BootReference}
            /\ pc' = "loop"
    /\ UNCHANGED <<pvars, storage, bootable, part_name, idx, error, calls>>

\* lines 81-120: one iteration of the loop over boot_devs
SetupOne ==
    /\ pc = "loop"
    /\ idx <= Len(boot_devs)
    /\ LET dev == boot_devs[idx] IN
         IF ~hasattr_bootable(dev)
         THEN /\ calls' = Append(calls, Call("log.skip_not_bootable", dev))
              /\ reads' = reads \cup {dev}
              /\ UNCHANGED <<bootable, part_name>>
         ELSE IF Skip(dev)
         THEN /\ calls' = Append(calls, Call("log.skip", dev))
              /\ reads' = reads \cup {dev, DiskOf(dev)}
              /\ UNCHANGED <<bootable, part_name>>
         ELSE /\ bootable' = IF SetsBootFlag(dev)
                             THEN [bootable EXCEPT ![dev] = TRUE]
                             ELSE bootable
              /\ part_name' = IF supportsFeature_PARTITION_NAME(dev)
                              THEN [part_name EXCEPT ![dev] = FormatName(fmt[dev])]
                              ELSE part_name
              /\ calls' = calls \o MarkCalls(dev)
              /\ reads' = reads \cup {dev, DiskOf(dev)}
    /\ idx' = idx + 1
    /\ UNCHANGED <<pvars, storage, boot_devs, error, pc>>

\* the loop is exhausted: _setup_bootable_devices returns
SetupDone ==
    /\ pc = "loop"
    /\ idx > Len(boot_devs)
    /\ pc' = "dump_state"
    /\ UNCHANGED <<pvars, storage, bootable, part_name, boot_devs, idx, error, reads, calls>>

\* line 53
DumpState ==
    /\ pc = "dump_state"
    /\ calls' = Append(calls, Call("dump_state", "final"))
    /\ pc' = "turn_on_swap"
    /\ UNCHANGED <<pvars, storage, bootable, part_name, boot_devs, idx, error, reads>>

\* lines 54-56: the except clause
Except ==
    /\ pc = "except"
    /\ IF Routed(error)
       THEN \E verdict \in Verdicts :
              /\ calls' = Append(calls, CallR("error_handler.cb", error, verdict))
              /\ IF Escalates(verdict)
                 THEN pc' = "raised" /\ UNCHANGED error
                 ELSE pc' = "turn_on_swap" /\ error' = ""
       ELSE /\ pc' = "raised"
            /\ UNCHANGED <<error, calls>>
    /\ UNCHANGED <<pvars, storage, bootable, part_name, boot_devs, idx, reads>>

\* line 58
TurnOnSwap ==
    /\ pc = "turn_on_swap"
    /\ calls' = Append(calls, Call("turn_on_swap", ""))
    /\ pc' = "returned"
    /\ UNCHANGED <<pvars, storage, bootable, part_name, boot_devs, idx, error, reads>>

NextActivate ==
    \/ TeardownAll
    \/ DoIt
    \/ SetupBootableDevices
    \/ SetupOne
    \/ SetupDone
    \/ DumpState
    \/ Except
    \/ TurnOnSwap

SpecActivate == InitActivate /\ [][NextActivate]_vars

----------------------------------------------------------------------------
(* Properties of turn_on_filesystems and _setup_bootable_devices *)

\* the number of log entries for operation op on arg
CountCalls(op, arg) ==
    Cardinality({k \in 1..Len(calls) : calls[k].op = op /\ calls[k].arg = arg})

\* the number of log entries for operation op
CountOp(op) == Cardinality({k \in 1..Len(calls) : calls[k].op = op})

\* the operations by which the marker changes or commits a device
MutatingOps == {"set_bootable", "set_name", "disk.setup", "commit_to_disk"}

\* everything the marker logs
MarkerOps == MutatingOps \cup {"log.skip", "log.skip_not_bootable"}

\* the marker has neither changed nor committed dev
Untouched(dev) ==
    /\ bootable[dev] = bootable0[dev]
    /\ part_name[dev] = ""
    /\ \A op \in MutatingOps : CountCalls(op, dev) = 0

\* the candidates the loop has finished with
Examined == {boot_devs[i] : i \in 1..(idx - 1)}

\* _setup_bootable_devices has just returned, having looked for candidates
MarkerReturned == pc = "dump_state" /\ ~skip_bootloader

\* C1, as stated: a candidate with a bootable attribute on a gpt disk is set
\* bootable by the run if and only if its format type is "efi" or "macefi",
\* and a candidate with any other format type is skipped, not mutated.
C1_Original ==
    \A dev \in Examined :
        (dev \in Partitions /\ label[DiskOf(dev)] = "gpt") =>
            /\ (CountCalls("set_bootable", dev) > 0) <=> (fmt[dev] \in {"efi", "macefi"})
            /\ fmt[dev] \notin {"efi", "macefi"} => Untouched(dev)

\* C1, amended: a candidate with a bootable attribute on a gpt disk is set
\* bootable by the run if and only if its format type is "efi"; a "macefi"
\* candidate is not skipped (its disk is set up and committed once) but its
\* bootable flag is left alone; a candidate with any other format type is
\* skipped, not mutated.
C1_GptMarking ==
    \A dev \in Examined :
        (dev \in Partitions /\ label[DiskOf(dev)] = "gpt") =>
            /\ (CountCalls("set_bootable", dev) > 0) <=> (fmt[dev] = "efi")
            /\ fmt[dev] = "efi" => bootable[dev] /\ CountCalls("commit_to_disk", dev) = 1
            /\ fmt[dev] = "macefi" =>
                  /\ bootable[dev] = bootable0[dev]
                  /\ CountCalls("disk.setup", dev) = 1
                  /\ CountCalls("commit_to_disk", dev) = 1
            /\ fmt[dev] \notin {"efi", "macefi"} => Untouched(dev)

\* an array on a gpt disk with an "efi" member, flagged by the run, a "macefi"
\* member and nothing from before
C1_Witness ==
    /\ MarkerReturned
    /\ \E e, m \in Examined \cap Partitions :
          /\ label[DiskOf(e)] = "gpt" /\ fmt[e] = "efi"
          /\ ~bootable0[e] /\ bootable[e]
          /\ label[DiskOf(m)] = "gpt" /\ fmt[m] = "macefi"
          /\ ~bootable0[m]

\* the disk had, when the run began, an msdos table with an active normal partition
ActiveMsdos(d) ==
    /\ label[d] = "msdos"
    /\ \E p \in Partitions :
          DiskOf(p) = d /\ ptype[p] = PARTITION_NORMAL /\ bootable0[p]

\* C2: on a disk whose msdos table already holds a PARTITION_NORMAL partition
\* with the boot flag, no device is set bootable by the run, and neither
\* disk.setup() nor commit_to_disk() is invoked for a candidate on it.
C2_ActiveMsdosUntouched ==
    \A p \in Partitions :
        ActiveMsdos(DiskOf(p)) =>
            /\ bootable[p] = bootable0[p]
            /\ CountCalls("set_bootable", p) = 0
            /\ CountCalls("disk.setup", p) = 0
            /\ CountCalls("commit_to_disk", p) = 0

\* an array with a member that was inactive on an msdos disk with an active
\* normal partition, and a member on the other disk that the run flagged
C2_Witness ==
    /\ MarkerReturned
    /\ \E a, b \in Examined \cap Partitions :
          /\ ActiveMsdos(DiskOf(a)) /\ ~bootable0[a]
          /\ DiskOf(b) # DiskOf(a)
          /\ ~bootable0[b] /\ bootable[b]

\* the partitions of disk d that carry the boot flag in flags
Flagged(d, flags) == {p \in Partitions : DiskOf(p) = d /\ flags[p]}

\* C3, as stated: if every msdos disk has at most one boot-flagged partition
\* (normal or logical) before _setup_bootable_devices runs, then after it every
\* msdos disk still has at most one, and no flag from before is cleared.
C3_Original ==
    ( /\ pc = "dump_state"
      /\ \A d \in Disks : label[d] = "msdos" => Cardinality(Flagged(d, bootable0)) <= 1 )
    => /\ \A d \in Disks : label[d] = "msdos" => Cardinality(Flagged(d, bootable)) <= 1
       /\ \A p \in Partitions : bootable0[p] => bootable[p]

\* the rule by which a candidate is skipped, read off the current state
SkipRule(dev) ==
    \/ /\ label[DiskOf(dev)] = "msdos"
       /\ \E p \in Partitions :
             DiskOf(p) = DiskOf(dev) /\ ptype[p] = PARTITION_NORMAL /\ bootable[p]
    \/ /\ label[DiskOf(dev)] = "gpt"
       /\ fmt[dev] \notin {"efi", "macefi"}

\* C8: with skip_bootloader set the marker reads and writes no device; and the
\* step that handles a candidate without a bootable attribute, or one the skip
\* rule holds for, changes no flag and no partition name and calls neither
\* disk.setup() nor commit_to_disk().
C8_SkippedUntouched ==
    [][ /\ skip_bootloader =>
              /\ reads' = {}
              /\ bootable' = bootable /\ part_name' = part_name
              /\ \A k \in 1..Len(calls') : calls'[k].op \notin MarkerOps
        /\ ( /\ pc = "loop" /\ idx <= Len(boot_devs)
             /\ (boot_devs[idx] \notin Partitions \/ SkipRule(boot_devs[idx])) ) =>
              /\ bootable' = bootable /\ part_name' = part_name
              /\ \A k \in (Len(calls) + 1)..Len(calls') : calls'[k].op \notin MutatingOps
      ]_vars

\* an array whose first member has no bootable attribute and whose second
\* member fell under the skip rule
C8_Witness ==
    /\ MarkerReturned
    /\ Len(boot_devs) = 2
    /\ CountCalls("log.skip_not_bootable", boot_devs[1]) = 1
    /\ CountCalls("log.skip", boot_devs[2]) = 1

\* the per-candidate outcomes in the log: a skip, or the commit that ends the marking
CandidateEvents ==
    SelectSeq(calls, LAMBDA c : c.op \in {"log.skip", "log.skip_not_bootable", "commit_to_disk"})

\* C9: the candidates are the parents of the reference device when it is an
\* mdarray and the reference device alone otherwise (reference: boot_device if
\* stage2_bootable, else stage1_device); the candidates are handled one by one
\* in order, a skipped one never ends the loop, and a candidate that is not
\* skipped gets exactly one disk.setup() directly followed by commit_to_disk(),
\* after its flag and name changes.  A single non-array candidate on an msdos
\* table without an active partition ends bootable, with one setup and one commit.
C9_Candidates ==
    LET ref == IF stage2_bootable THEN boot_device ELSE stage1_device
    IN  /\ (pc = "loop" \/ MarkerReturned) =>
              boot_devs = (IF ref = "md0" THEN parents ELSE <<ref>>)
        /\ [k \in 1..Len(CandidateEvents) |-> CandidateEvents[k].arg]
              = SubSeq(boot_devs, 1, idx - 1)
        /\ MarkerReturned => idx = Len(boot_devs) + 1
        /\ \A k \in 1..Len(calls) :
              /\ calls[k].op = "commit_to_disk" =>
                    /\ k > 1 /\ calls[k - 1] = Call("disk.setup", calls[k].arg)
                    /\ \A j \in 1..Len(calls) :
                          (calls[j].op \in {"set_bootable", "set_name"}
                              /\ calls[j].arg = calls[k].arg) => j < k - 1
              /\ calls[k].op = "disk.setup" =>
                    /\ k < Len(calls) /\ calls[k + 1] = Call("commit_to_disk", calls[k].arg)
                    /\ CountCalls("disk.setup", calls[k].arg) = 1
        /\ ( /\ MarkerReturned
             /\ ref \in Partitions
             /\ label[DiskOf(ref)] = "msdos"
             /\ Flagged(DiskOf(ref), bootable0) = {} ) =>
              /\ bootable[ref]
              /\ CountOp("disk.setup") = 1
              /\ CountOp("commit_to_disk") = 1

\* an array of two members: the first skipped, the second flagged and committed
C9_Witness ==
    /\ MarkerReturned
    /\ (IF stage2_bootable THEN boot_device ELSE stage1_device) = "md0"
    /\ Len(parents) = 2
    /\ CountCalls("log.skip", parents[1]) = 1
    /\ CountCalls("commit_to_disk", parents[2]) = 1
    /\ ~bootable0[parents[2]] /\ bootable[parents[2]]

\* the positions of operation op in the log
At(op) == {k \in 1..Len(calls) : calls[k].op = op}

ResizeErrors == {"FSResizeError", "FormatResizeError"}

\* C4: when do_it raises FSResizeError or FormatResizeError the policy is
\* consulted exactly once, with that error; on the verdict ERROR_RAISE the error
\* reaches the caller and turn_on_swap is not called; on any other verdict
\* turn_on_filesystems returns normally and turn_on_swap is called exactly
\* once.  An error of another kind is never given to the policy and propagates.
C4_ErrorPolicy ==
    /\ Cardinality(At("error_handler.cb")) <= 1
    /\ Cardinality(At("turn_on_swap")) <= 1
    /\ \A k \in At("error_handler.cb") :
          \E j \in At("do_it") : j < k /\ calls[j].res = calls[k].arg
    /\ pc \in {"raised", "returned"} =>
          \A j \in At("do_it") :
              /\ calls[j].res \in ResizeErrors =>
                    \E k \in At("error_handler.cb") :
                        /\ calls[k].arg = calls[j].res
                        /\ IF calls[k].res = "ERROR_RAISE"
                           THEN /\ pc = "raised" /\ error = calls[j].res
                                /\ At("turn_on_swap") = {}
                           ELSE /\ pc = "returned"
                                /\ Cardinality(At("turn_on_swap")) = 1
              /\ calls[j].res = "OtherError" =>
                    /\ At("error_handler.cb") = {}
                    /\ pc = "raised" /\ error = "OtherError"
                    /\ At("turn_on_swap") = {}

\* do_it raised FormatResizeError, the policy said to go on, and the function returned
C4_Witness ==
    /\ pc = "returned"
    /\ \E k \in At("error_handler.cb") :
          calls[k].arg = "FormatResizeError" /\ calls[k].res = "ERROR_CONTINUE"
    /\ \E j \in At("do_it") : calls[j].res = "FormatResizeError"

IsPrefix(a, b) == Len(a) <= Len(b) /\ a = SubSeq(b, 1, Len(a))

\* C10: the steps run in the order teardown_all, do_it, boot-device marking,
\* dump_state("final"), turn_on_swap; marking and dump_state happen only after
\* do_it has returned normally: when do_it raises a resize error that the
\* policy does not escalate, no device is marked, no partition table is
\* committed, dump_state is not called, turn_on_swap is still called and the
\* function returns normally.
C10_Order ==
    LET ops == [k \in 1..Len(calls) |-> calls[k].op]
        spine == SelectSeq(ops, LAMBDA o : o \notin MarkerOps)
        swallowed == \E k \in At("error_handler.cb") : calls[k].res # "ERROR_RAISE"
    IN  /\ \/ IsPrefix(spine, <<"teardown_all", "do_it", "dump_state", "turn_on_swap">>)
           \/ IsPrefix(spine, <<"teardown_all", "do_it", "error_handler.cb", "turn_on_swap">>)
        /\ \A k \in 1..Len(calls) :
              ops[k] \in MarkerOps \cup {"dump_state"} =>
                  /\ k > 2 /\ calls[2].op = "do_it" /\ calls[2].res = ""
                  /\ ops[k] \in MarkerOps => \A j \in At("dump_state") : k < j
        /\ (Len(calls) >= 2 /\ calls[2].res # "") =>
              /\ bootable = bootable0
              /\ \A p \in Partitions : part_name[p] = ""
              /\ reads = {}
        /\ pc = "returned" => ops[Len(ops)] = "turn_on_swap"
        /\ swallowed => pc \in {"turn_on_swap", "returned"}

\* do_it raised a resize error before a partition that would have been
\* flagged, the policy did not escalate, and the function returned
C10_Witness ==
    /\ pc = "returned"
    /\ [k \in 1..Len(calls) |-> calls[k].op]
          = <<"teardown_all", "do_it", "error_handler.cb", "turn_on_swap">>
    /\ calls[2].res = "FSResizeError"
    /\ calls[3].res = "ERROR_CONTINUE"
    /\ ~skip_bootloader /\ stage2_bootable /\ boot_device = "sda1"
    /\ label["sda"] = "msdos" /\ Flagged("sda", bootable0) = {}

----------------------------------------------------------------------------
(* Strings the code inspects *)

\* code points of the characters the names are made of
Ord(c) ==
    CASE c = "\n" -> 10 [] c = " " -> 32 [] c = "." -> 46
      [] c = "0" -> 48 [] c = "1" -> 49 [] c = "2" -> 50 [] c = "3" -> 51
      [] c = "a" -> 97 [] c = "b" -> 98 [] c = "c" -> 99 [] c = "d" -> 100
      [] c = "e" -> 101 [] c = "k" -> 107 [] c = "s" -> 115

\* the characters of the strings the code takes apart or compares
Chars(str) ==
    CASE str = "0.0" -> <<"0", ".", "0">>
      [] str = "0" -> <<"0">>
      [] str = "1" -> <<"1">>
      [] str = "1\n" -> <<"1", "\n">>
      [] str = "0.0.0001" -> <<"0", ".", "0", ".", "0", "0", "0", "1">>
      [] str = "eckd0.0.0001" -> <<"e", "c", "k", "d", "0", ".", "0", ".", "0", "0", "0", "1">>
      [] str = "eckd0.0.0002" -> <<"e", "c", "k", "d", "0", ".", "0", ".", "0", "0", "0", "2">>
      [] str = "dasda" -> <<"d", "a", "s", "d", "a">>
      [] str = "dasdb" -> <<"d", "a", "s", "d", "b">>
      [] str = "dasdaa" -> <<"d", "a", "s", "d", "a", "a">>

\* a < b for the character sequences of two Python strings
RECURSIVE StrLess(_, _)
StrLess(a, b) ==
    IF b = <<>> THEN FALSE
    ELSE IF a = <<>> THEN TRUE
    ELSE IF Ord(Head(a)) # Ord(Head(b)) THEN Ord(Head(a)) < Ord(Head(b))
    ELSE StrLess(Tail(a), Tail(b))

\* str.startswith
startswith(str, prefix) ==
    /\ Len(Chars(str)) >= Len(Chars(prefix))
    /\ SubSeq(Chars(str), 1, Len(Chars(prefix))) = Chars(prefix)

Whitespace == {" ", "\n"}

\* str.strip, on the characters of the string
RECURSIVE strip(_)
strip(cs) ==
    IF cs = <<>> THEN <<>>
    ELSE IF Head(cs) \in Whitespace THEN strip(Tail(cs))
    ELSE IF cs[Len(cs)] \in Whitespace THEN strip(SubSeq(cs, 1, Len(cs) - 1))
    ELSE cs

----------------------------------------------------------------------------
(* The devices of write_storage_configuration *)

\* three DASDs, one of them encrypted with an escrow certificate, and an
\* encrypted partition
StorageDevices == {"dasda", "dasdb", "dasdaa", "sdb2"}

\* d.type
type(d) == IF d \in {"dasda", "dasdb", "dasdaa"} THEN "dasd" ELSE "partition"

\* d.name
name(d) == d

\* d.busid
busid(d) ==
    CASE d = "dasda" -> "0.0.0300"
      [] d = "dasdb" -> "0.0.0100"
      [] d = "dasdaa" -> "0.0.0200"
      [] OTHER -> ""

\* basename(realpath("/sys/bus/ccw/devices/<busid>/driver"))
driver(d) == IF d = "dasdb" THEN "dasd-fba" ELSE "dasd-eckd"

\* d.format.type
format_type(d) == IF d = "dasda" THEN "disklabel" ELSE "luks"

\* d.format.escrow_cert is set
escrow_cert(d) == d \in {"dasdaa", "sdb2"}

\* names found under /sys/bus/ccw/drivers/dasd-eckd
EntryNames == {"0.0.0001", "eckd0.0.0001", "eckd0.0.0002"}

\* contents of an alias file
AliasContents == {"0", "1", "1\n"}

Entries == [name : EntryNames, alias : AliasContents]

\* os.listdir(sysfs): entries in any order, no name twice
Listings ==
    {l \in SeqsUpTo(Entries, MaxEntries) :
        \A i, j \in 1..Len(l) : i # j => l[i].name # l[j].name}

\* what a run can find at the sysfs path
SysfsStates ==
    {[read |-> TRUE, exists |-> FALSE, entries |-> <<>>]}
    \cup {[read |-> TRUE, exists |-> TRUE, entries |-> l] : l \in Listings}

----------------------------------------------------------------------------
(* _write_escrow_packets *)

\* lines 131-134
escrow_devices ==
    SelectSeq(devices, LAMBDA d : format_type(d) = "luks" /\ escrow_cert(d))

\* EscrowCaught with RuntimeError left out of the except clause
EscrowCaught_IOOnly(kind) == kind = "IOError"

\* line 152: the exceptions the except clause catches
EscrowCaught(kind) == kind \in {"IOError", "RuntimeError"}

\* the calls of the try block that are started when the call number failAt
\* raises (0: makedirs, k: the escrow of the k-th device, n + 1: none raises)
EscrowTried(failAt, kind) ==
    <<CallR("makedirs", "/root", IF failAt = 0 THEN kind ELSE "")>>
    \o [k \in 1..(IF failAt > Len(escrow_devices) THEN Len(escrow_devices) ELSE failAt)
          |-> CallR("escrow", escrow_devices[k], IF failAt = k THEN kind ELSE "")]

----------------------------------------------------------------------------
(* _write_dasd_conf *)

\* key=lambda d: d.name, compared as Python compares strings
NameLeq(d1, d2) == ~StrLess(Chars(name(d2)), Chars(name(d1)))

\* list.sort: the element x put behind every element that is not greater
RECURSIVE InsertSorted(_, _)
InsertSorted(sorted, x) ==
    IF sorted = <<>> THEN <<x>>
    ELSE IF NameLeq(sorted[Len(sorted)], x) THEN Append(sorted, x)
    ELSE Append(InsertSorted(SubSeq(sorted, 1, Len(sorted) - 1), x),
                sorted[Len(sorted)])

RECURSIVE SortByName(_)
SortByName(list) ==
    IF list = <<>> THEN <<>>
    ELSE InsertSorted(SortByName(SubSeq(list, 1, Len(list) - 1)), list[Len(list)])

\* dasds without the sort
dasds_Unsorted(devs) == SelectSeq(devs, LAMBDA d : type(d) = "dasd")

\* lines 197-198
dasds(devs) == SortByName(SelectSeq(devs, LAMBDA d : type(d) = "dasd"))

\* "[persistent %s %s]\nonline=1\n\n" % (drv, id)
Stanza(drv, id) == [driver |-> drv, busid |-> id]

\* lines 209-211
DasdStanzas(devs) ==
    LET sorted == dasds(devs)
    IN  [k \in 1..Len(sorted) |-> Stanza(driver(sorted[k]), busid(sorted[k]))]

\* ListedDevs without the test of the prefix
ListedDevs_Unfiltered(entries) == entries

\* line 225
ListedDevs(entries) ==
    SelectSeq(entries, LAMBDA e : startswith(e.name, "0.0"))

\* lines 229-235
IsAlias(e) == strip(Chars(e.alias)) = Chars("1")

\* lines 226-236
AliasStanzas(entries) ==
    LET found == SelectSeq(ListedDevs(entries), IsAlias)
    IN  [k \in 1..Len(found) |-> Stanza("dasd-eckd", found[k].name)]

----------------------------------------------------------------------------
(* write_storage_configuration *)

InitPersist ==
    /\ devices \in SeqsUpTo(StorageDevices, MaxDevices)
    /\ is_s390 \in BOOLEAN
    /\ etc_dir \in BOOLEAN
    /\ dasd_conf \in {"absent", "old"}
    /\ zdev_exists \in BOOLEAN
    /\ zdev_exists = (dasd_conf = "old")
    /\ ~etc_dir => ~zdev_exists
    /\ zdev_conf = IF zdev_exists THEN <<Stanza("qeth", "0.0.f500")>>
                   ELSE <<>>
    /\ files0 = <<dasd_conf, zdev_exists, zdev_conf>>
    /\ sysfs = NotRead
    /\ pc = "start"
    /\ error = ""
    /\ calls = <<>>
    /\ skip_bootloader = TRUE
    /\ stage2_bootable = FALSE
    /\ boot_device = "sda1"
    /\ stage1_device = "sda"
    /\ parents = <<"sda1">>
    /\ label = [d \in Disks |-> "msdos"]
    /\ fmt = [p \in Partitions |-> "ext4"]
    /\ ptype = [p \in Partitions |-> PARTITION_NORMAL]
    /\ bootable = [p \in Partitions |-> FALSE]
    /\ bootable0 = bootable
    /\ part_name = [p \in Partitions |-> ""]
    /\ boot_devs = <<>>
    /\ idx = 1
    /\ reads = {}

activation == <<skip_bootloader, stage2_bootable, boot_device, stage1_device, parents,
                label, fmt, ptype, bootable, bootable0, part_name, boot_devs, idx, reads>>

files == <<etc_dir, dasd_conf, zdev_exists, zdev_conf>>

\* a call that neither fails nor touches the model: log it and go on
Logged(op, to) ==
    /\ calls' = Append(calls, Call(op, ""))
    /\ pc' = to
    /\ UNCHANGED <<activation, devices, is_s390, files, files0, sysfs, error>>

\* lines 165-169
EnsureEtc ==
    /\ pc = "start"
    /\ etc_dir' = TRUE
    /\ calls' = IF etc_dir THEN calls ELSE Append(calls, Call("mkdir", "/etc"))
    /\ pc' = "escrow"
    /\ UNCHANGED <<activation, devices, is_s390, dasd_conf, zdev_exists, zdev_conf,
                   files0, sysfs, error>>

\* lines 131-156: _write_escrow_packets, with the call that raises (if any)
\* and the kind of the exception
WriteEscrowPackets ==
    /\ pc = "escrow"
    /\ IF escrow_devices = <<>>
       THEN /\ pc' = "make_mtab"
            /\ UNCHANGED <<calls, error>>
       ELSE \E failAt \in 0..(Len(escrow_devices) + 1),
               kind \in {"IOError", "RuntimeError", "OtherError"} :
              LET tried == <<Call("generate_backup_passphrase", "")>>
                           \o EscrowTried(failAt, kind)
              IN  IF failAt > Len(escrow_devices)
                  THEN /\ calls' = calls \o tried
                       /\ pc' = "make_mtab"
                       /\ UNCHANGED error
                  ELSE IF EscrowCaught(kind)
                  THEN /\ calls' = calls \o tried \o <<Call("log.error", kind)>>
                       /\ pc' = "make_mtab"
                       /\ UNCHANGED error
                  ELSE /\ calls' = calls \o tried
                       /\ pc' = "raised"
                       /\ error' = kind
    /\ UNCHANGED <<activation, devices, is_s390, files, files0, sysfs>>

\* line 173
MakeMtab ==
    /\ pc = "make_mtab"
    /\ Logged("make_mtab", "fsset_write")

\* line 174
FssetWrite ==
    /\ pc = "fsset_write"
    /\ Logged("fsset.write", "iscsi")

\* lines 176-177
IscsiWrite ==
    /\ pc = "iscsi"
    /\ Logged("ISCSI.WriteConfiguration", "fcoe")

\* lines 179-180
FcoeWrite ==
    /\ pc = "fcoe"
    /\ Logged("FCOE.WriteConfiguration", "zfcp")

\* lines 182-183
ZfcpWrite ==
    /\ pc = "zfcp"
    /\ Logged("ZFCP.WriteConfiguration", "dasd")

\* lines 197-211: _write_dasd_conf up to the stanzas of the DASD devices
WriteDasdConf ==
    /\ pc = "dasd"
    /\ IF ~(is_s390 /\ dasds(devices) # <<>>)
       THEN /\ pc' = "returned"
            /\ UNCHANGED files
       ELSE /\ dasd_conf' = "empty"
            /\ zdev_exists' = TRUE
            /\ zdev_conf' = zdev_conf \o DasdStanzas(devices)
            /\ pc' = "alias_scan"
            /\ UNCHANGED etc_dir
    /\ calls' = Append(calls, Call("_write_dasd_conf", ""))
    /\ UNCHANGED <<activation, devices, is_s390, files0, sysfs, error>>

\* lines 213-236: the scan for hyper PAV aliases; found is what the run finds
\* at the sysfs path
AliasScan ==
    /\ pc = "alias_scan"
    /\ \E found \in SysfsStates :
          /\ sysfs' = found
          /\ zdev_conf' = zdev_conf \o (IF found.exists THEN AliasStanzas(found.entries)
                                        ELSE <<>>)
    /\ pc' = "returned"
    /\ UNCHANGED <<activation, devices, is_s390, etc_dir, dasd_conf, zdev_exists,
                   files0, error, calls>>

NextPersist ==
    \/ EnsureEtc
    \/ WriteEscrowPackets
    \/ MakeMtab
    \/ FssetWrite
    \/ IscsiWrite
    \/ FcoeWrite
    \/ ZfcpWrite
    \/ WriteDasdConf
    \/ AliasScan

SpecPersist == InitPersist /\ [][NextPersist]_vars

----------------------------------------------------------------------------
(* Properties of write_storage_configuration *)

\* what the run appended to zdev.conf
Appended == SubSeq(zdev_conf, Len(files0[3]) + 1, Len(zdev_conf))

\* the DASD devices of the model
DasdSet == {devices[i] : i \in 1..Len(devices)} \cap {d \in StorageDevices : type(d) = "dasd"}

\* the stanzas appended after those of the DASD devices
AliasPart == SubSeq(Appended, Cardinality(DasdSet) + 1, Len(Appended))

\* the number of alias stanzas written for a sysfs entry name
AliasCount(n) ==
    Cardinality({k \in 1..Len(AliasPart) : AliasPart[k] = Stanza("dasd-eckd", n)})

\* _write_dasd_conf has run through the alias scan
Scanned == pc = "returned" /\ sysfs.read /\ sysfs.exists

\* the entries the run found in the sysfs directory
Found == {sysfs.entries[i] : i \in 1..Len(sysfs.entries)}

\* the name begins with the characters 0 . 0
BusIdName(n) ==
    /\ Len(Chars(n)) >= 3
    /\ Chars(n)[1] = "0" /\ Chars(n)[2] = "." /\ Chars(n)[3] = "0"

\* the failing call of the escrow try block, if one raised
EscrowFailures ==
    {k \in 1..Len(calls) : calls[k].op \in {"makedirs", "escrow"} /\ calls[k].res # ""}

\* the calls that follow _write_escrow_packets
AfterEscrow ==
    <<"make_mtab", "fsset.write", "ISCSI.WriteConfiguration",
      "FCOE.WriteConfiguration", "ZFCP.WriteConfiguration", "_write_dasd_conf">>

\* C5: an IOError or RuntimeError raised by the creation of the escrow
\* directory or by a device's format.escrow() never leaves
\* _write_escrow_packets: write_storage_configuration goes on with make_mtab,
\* fsset.write, the iSCSI, FCoE and zFCP WriteConfiguration calls and the DASD
\* config writer, in this order.
C5_EscrowSwallowed ==
    \A k \in EscrowFailures :
        calls[k].res \in {"IOError", "RuntimeError"} =>
            /\ pc # "raised" /\ error = ""
            /\ k < Len(calls) /\ calls[k + 1] = Call("log.error", calls[k].res)
            /\ \A j \in (k + 1)..Len(calls) : calls[j].op \notin {"makedirs", "escrow"}
            /\ IsPrefix([j \in 1..(Len(calls) - k - 1) |-> calls[k + 1 + j].op], AfterEscrow)
            /\ pc # "escrow"
            /\ pc = "returned" =>
                  [j \in 1..(Len(calls) - k - 1) |-> calls[k + 1 + j].op] = AfterEscrow

\* makedirs raised IOError and the configuration was written to the end
C5_Witness ==
    /\ pc = "returned"
    /\ \E k \in EscrowFailures : calls[k].op = "makedirs" /\ calls[k].res = "IOError"
    /\ Len(escrow_devices) = 2

\* C6, as stated: every sysfs entry whose alias file holds "1" gets exactly
\* one "[persistent dasd-eckd <entry>]" stanza and every entry whose alias file
\* holds "0" gets none; with the entries "eckd0.0.0001" (alias "1") and
\* "eckd0.0.0002" (alias "0") exactly one alias stanza is written, for 0001.
C6_Original ==
    Scanned =>
        /\ \A e \in Found :
              /\ e.alias = "1" => AliasCount(e.name) = 1
              /\ e.alias = "0" => AliasCount(e.name) = 0
        /\ Found = {[name |-> "eckd0.0.0001", alias |-> "1"],
                    [name |-> "eckd0.0.0002", alias |-> "0"]} =>
              /\ Len(AliasPart) = 1
              /\ AliasCount("eckd0.0.0001") = 1

\* C6, amended: every sysfs entry whose name starts with "0.0" and whose alias
\* file holds "1" (surrounding whitespace apart) gets exactly one
\* "[persistent dasd-eckd <entry>]" stanza; an entry whose alias file holds "0",
\* or whose name does not start with "0.0", gets none; with the entries
\* "eckd0.0.0001" (alias "1") and "eckd0.0.0002" (alias "0") no alias stanza is
\* written.
C6_AliasScan ==
    Scanned =>
        /\ \A e \in Found :
              /\ (BusIdName(e.name) /\ e.alias \in {"1", "1\n"}) => AliasCount(e.name) = 1
              /\ e.alias = "0" => AliasCount(e.name) = 0
              /\ ~BusIdName(e.name) => AliasCount(e.name) = 0
        /\ Len(AliasPart) = Cardinality({e \in Found : AliasCount(e.name) = 1})
        /\ Found = {[name |-> "eckd0.0.0001", alias |-> "1"],
                    [name |-> "eckd0.0.0002", alias |-> "0"]} =>
              Len(AliasPart) = 0

\* the directory lists an alias under a bus id and an alias under another
\* name: one stanza, for the bus id
C6_Witness ==
    /\ Scanned
    /\ Found = {[name |-> "0.0.0001", alias |-> "1"],
                [name |-> "eckd0.0.0001", alias |-> "1"]}
    /\ AliasPart = <<Stanza("dasd-eckd", "0.0.0001")>>

\* the orders in which the device tree may list the same devices
RECURSIVE Orderings(_)
Orderings(S) ==
    IF S = {} THEN {<<>>}
    ELSE UNION {{<<x>> \o t : t \in Orderings(S \ {x})} : x \in S}

\* C7: on s390 with a DASD device, the stanzas appended for the DASD devices
\* are one per device, in ascending order of the device names whatever the
\* order of storage.devices, and come before every alias stanza; a run on the
\* same devices in another order appends the same stanzas.  Off s390, or
\* without a DASD device, dasd.conf and zdev.conf stay as they were.
C7_DasdStanzas ==
    LET n == Cardinality(DasdSet)
        rank(d) == Cardinality({o \in DasdSet : StrLess(Chars(name(o)), Chars(name(d)))})
    IN  /\ (pc \in {"alias_scan", "returned"} /\ is_s390 /\ n > 0) =>
              /\ Len(Appended) >= n
              /\ \A d \in DasdSet :
                    Appended[rank(d) + 1] = Stanza(driver(d), busid(d))
              /\ \A k \in (n + 1)..Len(Appended) :
                    /\ Appended[k].driver = "dasd-eckd"
                    /\ \E e \in Found : e.name = Appended[k].busid
              /\ dasd_conf = "empty" /\ zdev_exists
        /\ pc = "alias_scan" =>
              \A other \in Orderings({devices[i] : i \in 1..Len(devices)}) :
                  DasdStanzas(other) = Appended
        /\ ~(is_s390 /\ n > 0) => <<dasd_conf, zdev_exists, zdev_conf>> = files0
        /\ IsPrefix(files0[3], zdev_conf)

\* three DASD devices listed against the order of their names, and an alias
C7_Witness ==
    /\ pc = "returned" /\ is_s390
    /\ devices = <<"dasdb", "dasdaa", "dasda">>
    /\ Len(Appended) = 4
    /\ files0[3] # <<>>

====
